---- MODULE Spec2Model ----
(***************************************************************************)
(* Lazy scalar expressions (src/operation.rs, src/operation/instruction.rs) *)
(* An expression is a graph of operation nodes (Constant, Add, Sub, Mul,   *)
(* Div) held through Rc<RefCell<_>> handles.  Scalar::execute interprets   *)
(* the graph; Scalar::compile lowers it to three-address instructions,     *)
(* recording in each node (compile_ret) the slot it was lowered to.        *)
(***************************************************************************)
EXTENDS Integers, Sequences, FiniteSets

(***************************************************************************)
(* Bounds of the model.                                                    *)
(***************************************************************************)
\* number of nodes ever constructed
MaxNodes == 3
\* number of nodes of an expression that the caller constructs twice
MaxCopy == 2
\* the constants the caller writes
Values == {0, 1}

(***************************************************************************)
(* f32 values.  A value is a pair <<n, d>>:                                *)
(*   d > 0, n # 0   the finite non-zero number n/d (in lowest terms)       *)
(*   <<0, 1>>       +0.0          <<0, -1>>   -0.0                         *)
(*   <<1, 0>>       +infinity     <<-1, 0>>   -infinity                    *)
(*   <<0, 0>>       NaN                                                    *)
(* The IEEE-754 rules for signed zeros, infinities and NaN are followed;   *)
(* quotients are kept exact (the rounding of f32 is not modelled).         *)
(***************************************************************************)
PZero == <<0, 1>>
NZero == <<0, -1>>
PInf == <<1, 0>>
NInf == <<-1, 0>>
NaN == <<0, 0>>

Abs(i) == IF i < 0 THEN -i ELSE i

Sgn(i) == IF i < 0 THEN -1 ELSE IF i > 0 THEN 1 ELSE 0

RECURSIVE Gcd(_, _)
Gcd(x, y) == IF y = 0 THEN x ELSE Gcd(y, x % y)

IsNaN(x) == x = NaN

IsInf(x) == x[2] = 0 /\ x[1] # 0

IsZero(x) == x[1] = 0 /\ x[2] # 0

\* the sign bit of a value that is not NaN, as 1 or -1
SignOf(x) == IF x[1] # 0 THEN Sgn(x[1]) ELSE Sgn(x[2])

\* the finite value n/d, d > 0, in lowest terms; sz is the sign given to a zero
Norm(n, d, sz) ==
    IF n = 0 THEN <<0, sz>>
    ELSE LET g == Gcd(Abs(n), d) IN <<n \div g, d \div g>>

\* `value as f32` of a constant written in the program
F32(v) == Norm(v, 1, 1)

FNeg(x) ==
    IF IsNaN(x) THEN NaN
    ELSE IF IsZero(x) THEN <<0, -x[2]>>
    ELSE <<-x[1], x[2]>>

\* x + y
FAdd(x, y) ==
    IF IsNaN(x) \/ IsNaN(y) THEN NaN
    ELSE IF IsInf(x) /\ IsInf(y) THEN (IF x = y THEN x ELSE NaN)
    ELSE IF IsInf(x) THEN x
    ELSE IF IsInf(y) THEN y
    ELSE IF IsZero(x) /\ IsZero(y) THEN (IF x = y THEN x ELSE PZero)
    ELSE Norm(x[1] * Abs(y[2]) + y[1] * Abs(x[2]), Abs(x[2]) * Abs(y[2]), 1)

\* x - y
FSub(x, y) == FAdd(x, FNeg(y))

\* x * y
FMul(x, y) ==
    IF IsNaN(x) \/ IsNaN(y) THEN NaN
    ELSE IF (IsInf(x) /\ IsZero(y)) \/ (IsZero(x) /\ IsInf(y)) THEN NaN
    ELSE IF IsInf(x) \/ IsInf(y) THEN <<SignOf(x) * SignOf(y), 0>>
    ELSE Norm(x[1] * y[1], Abs(x[2]) * Abs(y[2]), SignOf(x) * SignOf(y))

\* x / y
FDiv(x, y) ==
    IF IsNaN(x) \/ IsNaN(y) THEN NaN
    ELSE IF (IsInf(x) /\ IsInf(y)) \/ (IsZero(x) /\ IsZero(y)) THEN NaN
    ELSE IF IsInf(x) \/ IsZero(y) THEN <<SignOf(x) * SignOf(y), 0>>
    ELSE IF IsInf(y) \/ IsZero(x) THEN <<0, SignOf(x) * SignOf(y)>>
    ELSE Norm(SignOf(x) * SignOf(y) * Abs(x[1]) * Abs(y[2]),
              Abs(y[1]) * Abs(x[2]), SignOf(x) * SignOf(y))

(***************************************************************************)
(* Option<usize>                                                           *)
(***************************************************************************)
None == <<>>

Some(x) == <<x>>

IsSome(o) == o # None

Unwrap(o) == o[1]

(***************************************************************************)
(* Instructions (src/operation/instruction.rs).  An instruction is its op  *)
(* (ConstantOp carries value; AddOp, SubOp, MulOp, DivOp carry the operand *)
(* slots a and b) and its destination slot ret.                            *)
(***************************************************************************)
constant(value, ret) == [op |-> "constant", value |-> value, a |-> 0, b |-> 0, ret |-> ret]

add(a, b, ret) == [op |-> "add", value |-> PZero, a |-> a, b |-> b, ret |-> ret]

sub(a, b, ret) == [op |-> "sub", value |-> PZero, a |-> a, b |-> b, ret |-> ret]

mul(a, b, ret) == [op |-> "mul", value |-> PZero, a |-> a, b |-> b, ret |-> ret]

div(a, b, ret) == [op |-> "div", value |-> PZero, a |-> a, b |-> b, ret |-> ret]

(***************************************************************************)
(* CompileResult (operation.rs:42-61)                                      *)
(***************************************************************************)
AlreadyCompiled(ret) == [tag |-> "AlreadyCompiled", instructions |-> <<>>, ret |-> ret]

Compiled(instructions, ret) == [tag |-> "Compiled", instructions |-> instructions, ret |-> ret]

\* get_ret answering slot 0 for an AlreadyCompiled result
get_ret_Zero(res) == IF res.tag = "AlreadyCompiled" THEN 0 ELSE res.ret

get_ret(res) == res.ret

get_instructions(res) ==
    IF res.tag = "AlreadyCompiled" THEN None ELSE Some(res.instructions)

\* opt.map(|i| instructions.extend(i))
Extend(instructions, opt) ==
    IF IsSome(opt) THEN instructions \o Unwrap(opt) ELSE instructions

(***************************************************************************)
(* Operation nodes.  The heap of Rc<RefCell<O>> cells is the sequence      *)
(* nodes; a handle (Scalar<O>) is the index of its cell, and cloning a     *)
(* handle copies the index.  A Constant has a value; Add, Sub, Mul and Div *)
(* have the handles a and b; each has compile_ret.                         *)
(***************************************************************************)
Constant(value) ==
    [op |-> "constant", value |-> value, a |-> 0, b |-> 0, compile_ret |-> None]

\* AddNew with the two handles exchanged
AddNew_Swapped(a, b) ==
    [op |-> "add", value |-> PZero, a |-> b, b |-> a, compile_ret |-> None]

AddNew(a, b) == [op |-> "add", value |-> PZero, a |-> a, b |-> b, compile_ret |-> None]

SubNew(a, b) == [op |-> "sub", value |-> PZero, a |-> a, b |-> b, compile_ret |-> None]

MulNew(a, b) == [op |-> "mul", value |-> PZero, a |-> a, b |-> b, compile_ret |-> None]

DivNew(a, b) == [op |-> "div", value |-> PZero, a |-> a, b |-> b, compile_ret |-> None]

(***************************************************************************)
(* Operation::execute                                                      *)
(***************************************************************************)
RECURSIVE OperationExecute(_, _)

ConstantExecute(ns, n) == ns[n].value

AddExecute(ns, n) == FAdd(OperationExecute(ns, ns[n].a), OperationExecute(ns, ns[n].b))

\* SubExecute with the operands exchanged
SubExecute_Swapped(ns, n) ==
    FSub(OperationExecute(ns, ns[n].b), OperationExecute(ns, ns[n].a))

SubExecute(ns, n) == FSub(OperationExecute(ns, ns[n].a), OperationExecute(ns, ns[n].b))

MulExecute(ns, n) == FMul(OperationExecute(ns, ns[n].a), OperationExecute(ns, ns[n].b))

DivExecute(ns, n) == FDiv(OperationExecute(ns, ns[n].a), OperationExecute(ns, ns[n].b))

\* the dispatch on the node's type
OperationExecute(ns, n) ==
    CASE ns[n].op = "constant" -> ConstantExecute(ns, n)
      [] ns[n].op = "add" -> AddExecute(ns, n)
      [] ns[n].op = "sub" -> SubExecute(ns, n)
      [] ns[n].op = "mul" -> MulExecute(ns, n)
      [] ns[n].op = "div" -> DivExecute(ns, n)

ScalarExecute(ns, h) == OperationExecute(ns, h)

(***************************************************************************)
(* Operation::compile.  st is what one lowering pass threads through the   *)
(* recursion: the cells (nodes), the next value of operand_num_iterator    *)
(* (it) and, as history, log: one entry per assignment of a compile_ret,   *)
(* in order, with the node and the destinations of the instructions its    *)
(* left and right operand handed up to it.                                 *)
(***************************************************************************)
RECURSIVE OperationCompile(_, _)

\* IterNext with the iterator not advanced
IterNext_Stuck(st) == [value |-> st.it, st |-> st]

\* operand_num_iterator.next().unwrap() of the iterator (0..)
IterNext(st) == [value |-> st.it, st |-> [st EXCEPT !.it = st.it + 1]]

\* the destination slots of a list of instructions
Dests(instructions) == {instructions[i].ret : i \in 1 .. Len(instructions)}

\* SetCompileRet writing to the first cell instead of the node's own
SetCompileRet_WrongCell(st, n, ret, left, right) ==
    [st EXCEPT !.nodes[1].compile_ret = Some(ret),
               !.log = Append(st.log, [node |-> n, left |-> Dests(left),
                                       right |-> Dests(right)])]

\* self.compile_ret = Some(ret)
SetCompileRet(st, n, ret, left, right) ==
    [st EXCEPT !.nodes[n].compile_ret = Some(ret),
               !.log = Append(st.log, [node |-> n, left |-> Dests(left),
                                       right |-> Dests(right)])]

\* ConstantCompile without the match on compile_ret: lowered again on each visit
ConstantCompile_NoMemo(st, n) ==
    LET nx == IterNext(st)
        ret == nx.value
    IN [st |-> SetCompileRet(nx.st, n, ret, <<>>, <<>>),
        res |-> Compiled(<<constant(st.nodes[n].value, ret)>>, ret)]

\* ConstantCompile with the memo looked up by value: a constant counts as
\* lowered when any constant of the same value is
ConstantCompile_ByValue(st, n) ==
    LET same == {m \in 1 .. Len(st.nodes) :
                    /\ st.nodes[m].op = "constant"
                    /\ st.nodes[m].value = st.nodes[n].value
                    /\ IsSome(st.nodes[m].compile_ret)}
    IN IF same # {}
       THEN [st |-> st,
             res |-> AlreadyCompiled(Unwrap(st.nodes[CHOOSE m \in same : TRUE].compile_ret))]
       ELSE LET nx == IterNext(st)
                ret == nx.value
            IN [st |-> SetCompileRet(nx.st, n, ret, <<>>, <<>>),
                res |-> Compiled(<<constant(st.nodes[n].value, ret)>>, ret)]

ConstantCompile(st, n) ==
    IF IsSome(st.nodes[n].compile_ret)
    THEN [st |-> st, res |-> AlreadyCompiled(Unwrap(st.nodes[n].compile_ret))]
    ELSE LET nx == IterNext(st)
             ret == nx.value
         IN [st |-> SetCompileRet(nx.st, n, ret, <<>>, <<>>),
             res |-> Compiled(<<constant(st.nodes[n].value, ret)>>, ret)]

\* AddCompile collecting the right operand's instructions before the left's
AddCompile_RightFirst(st, n) ==
    IF IsSome(st.nodes[n].compile_ret)
    THEN [st |-> st, res |-> AlreadyCompiled(Unwrap(st.nodes[n].compile_ret))]
    ELSE LET a == OperationCompile(st, st.nodes[n].a)
             b == OperationCompile(a.st, st.nodes[n].b)
             instructions == Extend(Extend(<<>>, get_instructions(b.res)),
                                    get_instructions(a.res))
             nx == IterNext(b.st)
             ret == nx.value
         IN [st |-> SetCompileRet(nx.st, n, ret, a.res.instructions,
                                  b.res.instructions),
             res |-> Compiled(Append(instructions,
                                     add(get_ret(a.res), get_ret(b.res), ret)), ret)]

AddCompile(st, n) ==
    IF IsSome(st.nodes[n].compile_ret)
    THEN [st |-> st, res |-> AlreadyCompiled(Unwrap(st.nodes[n].compile_ret))]
    ELSE LET a == OperationCompile(st, st.nodes[n].a)
             b == OperationCompile(a.st, st.nodes[n].b)
             instructions == Extend(Extend(<<>>, get_instructions(a.res)),
                                    get_instructions(b.res))
             nx == IterNext(b.st)
             ret == nx.value
         IN [st |-> SetCompileRet(nx.st, n, ret, a.res.instructions,
                                  b.res.instructions),
             res |-> Compiled(Append(instructions,
                                     add(get_ret(a.res), get_ret(b.res), ret)), ret)]

\* SubCompile with the operand slots exchanged in its instruction
SubCompile_SlotsSwapped(st, n) ==
    IF IsSome(st.nodes[n].compile_ret)
    THEN [st |-> st, res |-> AlreadyCompiled(Unwrap(st.nodes[n].compile_ret))]
    ELSE LET a == OperationCompile(st, st.nodes[n].a)
             b == OperationCompile(a.st, st.nodes[n].b)
             instructions == Extend(Extend(<<>>, get_instructions(a.res)),
                                    get_instructions(b.res))
             nx == IterNext(b.st)
             ret == nx.value
         IN [st |-> SetCompileRet(nx.st, n, ret, a.res.instructions,
                                  b.res.instructions),
             res |-> Compiled(Append(instructions,
                                     sub(get_ret(b.res), get_ret(a.res), ret)), ret)]

SubCompile(st, n) ==
    IF IsSome(st.nodes[n].compile_ret)
    THEN [st |-> st, res |-> AlreadyCompiled(Unwrap(st.nodes[n].compile_ret))]
    ELSE LET a == OperationCompile(st, st.nodes[n].a)
             b == OperationCompile(a.st, st.nodes[n].b)
             instructions == Extend(Extend(<<>>, get_instructions(a.res)),
                                    get_instructions(b.res))
             nx == IterNext(b.st)
             ret == nx.value
         IN [st |-> SetCompileRet(nx.st, n, ret, a.res.instructions,
                                  b.res.instructions),
             res |-> Compiled(Append(instructions,
                                     sub(get_ret(a.res), get_ret(b.res), ret)), ret)]

\* MulCompile pushing its own instruction before its operands' instructions
MulCompile_OwnFirst(st, n) ==
    IF IsSome(st.nodes[n].compile_ret)
    THEN [st |-> st, res |-> AlreadyCompiled(Unwrap(st.nodes[n].compile_ret))]
    ELSE LET a == OperationCompile(st, st.nodes[n].a)
             b == OperationCompile(a.st, st.nodes[n].b)
             nx == IterNext(b.st)
             ret == nx.value
             instructions == Extend(Extend(<<mul(get_ret(a.res), get_ret(b.res), ret)>>,
                                           get_instructions(a.res)),
                                    get_instructions(b.res))
         IN [st |-> SetCompileRet(nx.st, n, ret, a.res.instructions,
                                  b.res.instructions),
             res |-> Compiled(instructions, ret)]

MulCompile(st, n) ==
    IF IsSome(st.nodes[n].compile_ret)
    THEN [st |-> st, res |-> AlreadyCompiled(Unwrap(st.nodes[n].compile_ret))]
    ELSE LET a == OperationCompile(st, st.nodes[n].a)
             b == OperationCompile(a.st, st.nodes[n].b)
             instructions == Extend(Extend(<<>>, get_instructions(a.res)),
                                    get_instructions(b.res))
             nx == IterNext(b.st)
             ret == nx.value
         IN [st |-> SetCompileRet(nx.st, n, ret, a.res.instructions,
                                  b.res.instructions),
             res |-> Compiled(Append(instructions,
                                     mul(get_ret(a.res), get_ret(b.res), ret)), ret)]

\* DivCompile lowering the left operand in place of the right one
DivCompile_LeftTwice(st, n) ==
    IF IsSome(st.nodes[n].compile_ret)
    THEN [st |-> st, res |-> AlreadyCompiled(Unwrap(st.nodes[n].compile_ret))]
    ELSE LET a == OperationCompile(st, st.nodes[n].a)
             b == OperationCompile(a.st, st.nodes[n].a)
             instructions == Extend(Extend(<<>>, get_instructions(a.res)),
                                    get_instructions(b.res))
             nx == IterNext(b.st)
             ret == nx.value
         IN [st |-> SetCompileRet(nx.st, n, ret, a.res.instructions,
                                  b.res.instructions),
             res |-> Compiled(Append(instructions,
                                     div(get_ret(a.res), get_ret(b.res), ret)), ret)]

DivCompile(st, n) ==
    IF IsSome(st.nodes[n].compile_ret)
    THEN [st |-> st, res |-> AlreadyCompiled(Unwrap(st.nodes[n].compile_ret))]
    ELSE LET a == OperationCompile(st, st.nodes[n].a)
             b == OperationCompile(a.st, st.nodes[n].b)
             instructions == Extend(Extend(<<>>, get_instructions(a.res)),
                                    get_instructions(b.res))
             nx == IterNext(b.st)
             ret == nx.value
         IN [st |-> SetCompileRet(nx.st, n, ret, a.res.instructions,
                                  b.res.instructions),
             res |-> Compiled(Append(instructions,
                                     div(get_ret(a.res), get_ret(b.res), ret)), ret)]

\* the dispatch on the node's type
OperationCompile(st, n) ==
    CASE st.nodes[n].op = "constant" -> ConstantCompile(st, n)
      [] st.nodes[n].op = "add" -> AddCompile(st, n)
      [] st.nodes[n].op = "sub" -> SubCompile(st, n)
      [] st.nodes[n].op = "mul" -> MulCompile(st, n)
      [] st.nodes[n].op = "div" -> DivCompile(st, n)

\* Scalar::compile: a fresh iterator (0..), the root's compile, and the match
\* on its result; AlreadyCompiled is the unreachable!() arm, which panics
ScalarCompile(ns, h) ==
    LET r == OperationCompile([nodes |-> ns, it |-> 0, log |-> <<>>], h)
    IN IF r.res.tag = "AlreadyCompiled"
       THEN [panicked |-> TRUE, nodes |-> r.st.nodes, instructions |-> <<>>,
             log |-> r.st.log]
       ELSE [panicked |-> FALSE, nodes |-> r.st.nodes,
             instructions |-> r.res.instructions, log |-> r.st.log]

(***************************************************************************)
(* The program state.                                                      *)
(*   nodes  the cells constructed so far, in construction order            *)
(*   last   the last operation of the caller and what it returned          *)
(* The caller can clone a handle before a consuming call (Scalar derives   *)
(* Clone), so every constructed node can be the handle of any later call.  *)
(***************************************************************************)
VARIABLES nodes, last

vars == <<nodes, last>>

Handles == 1 .. Len(nodes)

\* a call in progress: the frames of the nested execute or compile calls,
\* outermost first, the slot iterator Scalar::compile made, the log of the
\* compile_ret assignments, the nodes whose RefCell is borrowed mutably
\* (borrow_mut) and those borrowed shared (borrow, one entry per borrow),
\* and the last result a nested compile handed back
NoResult == [tag |-> "none", instructions |-> <<>>, ret |-> 0]

Frame(n) == [node |-> n, pc |-> "enter", a |-> NoResult, b |-> NoResult,
             va |-> NaN, vb |-> NaN]

Idle == [kind |-> "idle", frames |-> <<>>, it |-> 0, log |-> <<>>,
         borrowed |-> {}, shared |-> <<>>,
         ret |-> [node |-> 0, res |-> NoResult]]

NoCall == [op |-> "none", handle |-> 0, args |-> <<>>, value |-> NaN,
           panicked |-> FALSE, instructions |-> <<>>, log |-> <<>>,
           run |-> Idle]

Init ==
    /\ nodes = <<>>
    /\ last = NoCall

\* a panic ends the program
Running == ~last.panicked

\* the record of a construction: the arguments and the handle returned
Constructed(opname, args, n) ==
    [NoCall EXCEPT !.op = opname, !.args = args, !.handle = n]

\* Scalar::new(value)
New ==
    /\ Running
    /\ Len(nodes) < MaxNodes
    /\ \E v \in Values :
         /\ nodes' = Append(nodes, Constant(F32(v)))
         /\ last' = Constructed("new", <<v>>, Len(nodes) + 1)

\* self.add(other), also &self + &other
Add ==
    /\ Running
    /\ Len(nodes) < MaxNodes
    /\ \E self \in Handles, other \in Handles :
         /\ nodes' = Append(nodes, AddNew(self, other))
         /\ last' = Constructed("add", <<self, other>>, Len(nodes) + 1)

\* self.sub(other), also &self - &other
Sub ==
    /\ Running
    /\ Len(nodes) < MaxNodes
    /\ \E self \in Handles, other \in Handles :
         /\ nodes' = Append(nodes, SubNew(self, other))
         /\ last' = Constructed("sub", <<self, other>>, Len(nodes) + 1)

\* self.mul(other), also &self * &other
Mul ==
    /\ Running
    /\ Len(nodes) < MaxNodes
    /\ \E self \in Handles, other \in Handles :
         /\ nodes' = Append(nodes, MulNew(self, other))
         /\ last' = Constructed("mul", <<self, other>>, Len(nodes) + 1)

\* self.div(other), also &self / &other
Div ==
    /\ Running
    /\ Len(nodes) < MaxNodes
    /\ \E self \in Handles, other \in Handles :
         /\ nodes' = Append(nodes, DivNew(self, other))
         /\ last' = Constructed("div", <<self, other>>, Len(nodes) + 1)

\* self.execute()
Execute ==
    /\ Running
    /\ \E self \in Handles :
         last' = [NoCall EXCEPT !.op = "execute", !.handle = self,
                                !.value = ScalarExecute(nodes, self)]
    /\ UNCHANGED nodes

\* self.compile()
Compile ==
    /\ Running
    /\ \E self \in Handles :
         LET r == ScalarCompile(nodes, self)
         IN /\ nodes' = r.nodes
            /\ last' = [NoCall EXCEPT !.op = "compile", !.handle = self,
                                       !.panicked = r.panicked,
                                       !.instructions = r.instructions,
                                       !.log = r.log]

Next == New \/ Add \/ Sub \/ Mul \/ Div \/ Execute \/ Compile

Spec == Init /\ [][Next]_vars

(***************************************************************************)
(* The same program with every nested call as a step of its own.  An       *)
(* execute or compile call pushes a frame for each node it enters; a frame *)
(* is at "enter" (the body not yet run), "in_a" / "in_b" (waiting for the  *)
(* call on the left / right operand), "got_a" / "got_b" (that call has     *)
(* returned).  The program is single threaded: a call that has started     *)
(* runs to its end before the caller does anything else.                   *)
(***************************************************************************)
Quiet == last.run.kind \notin {"execute", "compile"}

Busy == ~Quiet

Top == last.run.frames[Len(last.run.frames)]

\* RefCell::borrow_mut fails when the cell is borrowed in any way,
\* RefCell::borrow when it is borrowed mutably
BorrowMutFails(run, n) ==
    \/ n \in run.borrowed
    \/ \E i \in 1 .. Len(run.shared) : run.shared[i] = n

BorrowFails(run, n) == n \in run.borrowed

\* the panic of a failed borrow, which ends the program
BorrowPanic(run, error) ==
    [NoCall EXCEPT !.op = IF run.kind = "compile" THEN "compile" ELSE "execute",
                   !.handle = run.frames[1].node,
                   !.panicked = TRUE,
                   !.log = run.log,
                   !.run = [Idle EXCEPT !.kind = error]]

\* Deliver that drops the result and leaves the caller waiting
Deliver_Lost(f, res) == f

\* the caller stores what the call on its operand returned
Deliver(f, res) ==
    IF f.pc = "in_a" THEN [f EXCEPT !.a = res, !.pc = "got_a"]
                     ELSE [f EXCEPT !.b = res, !.pc = "got_b"]

DeliverValue(f, v) ==
    IF f.pc = "in_a" THEN [f EXCEPT !.va = v, !.pc = "got_a"]
                     ELSE [f EXCEPT !.vb = v, !.pc = "got_b"]

\* the match of Scalar::compile on an AlreadyCompiled root that returns an
\* empty list
ScalarCompileMatch_EmptyList(n, run, res) ==
    [NoCall EXCEPT !.op = "compile", !.handle = n,
                   !.instructions = res.instructions,
                   !.log = run.log,
                   !.run = [Idle EXCEPT !.ret = run.ret]]

\* the match of Scalar::compile on what the root's compile returned
ScalarCompileMatch(n, run, res) ==
    IF res.tag = "AlreadyCompiled"
    THEN [NoCall EXCEPT !.op = "compile", !.handle = n,
                        !.panicked = TRUE,
                        !.log = run.log,
                        !.run = [Idle EXCEPT !.ret = run.ret]]
    ELSE [NoCall EXCEPT !.op = "compile", !.handle = n,
                        !.instructions = res.instructions,
                        !.log = run.log,
                        !.run = [Idle EXCEPT !.ret = run.ret]]

\* Returning that keeps the RefMut of the node alive
Returning_BorrowKept(run, res) ==
    LET k == Len(run.frames)
        n == run.frames[k].node
        popped == [run EXCEPT !.frames = SubSeq(@, 1, k - 1),
                              !.ret = [node |-> n, res |-> res]]
    IN IF k = 1 THEN ScalarCompileMatch(n, popped, res)
       ELSE [last EXCEPT !.run =
                [popped EXCEPT !.frames[k - 1] = Deliver(@, res)]]

\* Operation::compile of the top frame returns res: the temporary RefMut of
\* the node is dropped and the caller goes on with the result
Returning(run, res) ==
    LET k == Len(run.frames)
        n == run.frames[k].node
        popped == [run EXCEPT !.frames = SubSeq(@, 1, k - 1),
                              !.borrowed = @ \ {n},
                              !.ret = [node |-> n, res |-> res]]
    IN IF k = 1 THEN ScalarCompileMatch(n, popped, res)
       ELSE [last EXCEPT !.run =
                [popped EXCEPT !.frames[k - 1] = Deliver(@, res)]]

\* Operation::execute of the top frame returns v.  The Refs of its operands
\* are temporaries of the expression that adds the two values: both live
\* until the expression ends, and `drops` of them are dropped here.  The Ref
\* of the root is dropped when Scalar::execute returns.
ReturningValue(run, v, drops) ==
    LET k == Len(run.frames)
        n == run.frames[k].node
        popped == [run EXCEPT !.frames = SubSeq(@, 1, k - 1),
                              !.shared = SubSeq(@, 1, Len(@) - drops)]
    IN IF k = 1
       THEN [NoCall EXCEPT !.op = "execute", !.handle = n, !.value = v]
       ELSE [last EXCEPT !.run =
                [popped EXCEPT !.frames[k - 1] = DeliverValue(@, v)]]

\* the compile state the body of the top frame works on
RunState == [nodes |-> nodes, it |-> last.run.it, log |-> last.run.log]

\* a nested call on operand n of the top frame, now waiting at pc
CallOperand(run, n, pc) ==
    IF BorrowMutFails(run, n) THEN BorrowPanic(run, "BorrowMutError")
    ELSE [last EXCEPT !.run =
             [run EXCEPT !.frames = Append([@ EXCEPT ![Len(@)].pc = pc], Frame(n)),
                         !.borrowed = @ \cup {n}]]

CallOperandExecute(run, n, pc) ==
    IF BorrowFails(run, n) THEN BorrowPanic(run, "BorrowError")
    ELSE [last EXCEPT !.run =
             [run EXCEPT !.frames = Append([@ EXCEPT ![Len(@)].pc = pc], Frame(n)),
                         !.shared = Append(@, n)]]

\* the instruction of a binary node
BinaryInstruction(op, a, b, ret) ==
    CASE op = "add" -> add(a, b, ret)
      [] op = "sub" -> sub(a, b, ret)
      [] op = "mul" -> mul(a, b, ret)
      [] op = "div" -> div(a, b, ret)

\* the value of a binary node
BinaryValue(op, x, y) ==
    CASE op = "add" -> FAdd(x, y)
      [] op = "sub" -> FSub(x, y)
      [] op = "mul" -> FMul(x, y)
      [] op = "div" -> FDiv(x, y)

\* self.compile(): a fresh iterator, borrow_mut of the root
CompileCall ==
    /\ Running /\ Quiet
    /\ \E self \in Handles :
         last' = [NoCall EXCEPT !.op = "compiling", !.handle = self,
                     !.run = [Idle EXCEPT !.kind = "compile",
                                          !.frames = <<Frame(self)>>,
                                          !.borrowed = {self}]]
    /\ UNCHANGED nodes

\* CompileAlready that takes a slot from the iterator before it answers
CompileAlready_TakesSlot ==
    /\ last.run.kind = "compile"
    /\ Top.pc = "enter"
    /\ IsSome(nodes[Top.node].compile_ret)
    /\ last' = Returning([last.run EXCEPT !.it = @ + 1],
                         AlreadyCompiled(Unwrap(nodes[Top.node].compile_ret)))
    /\ UNCHANGED nodes

\* Operation::compile on a node whose compile_ret is Some
CompileAlready ==
    /\ last.run.kind = "compile"
    /\ Top.pc = "enter"
    /\ IsSome(nodes[Top.node].compile_ret)
    /\ last' = Returning(last.run,
                         AlreadyCompiled(Unwrap(nodes[Top.node].compile_ret)))
    /\ UNCHANGED nodes

\* Constant::compile on a node whose compile_ret is None
CompileConstant ==
    /\ last.run.kind = "compile"
    /\ Top.pc = "enter"
    /\ ~IsSome(nodes[Top.node].compile_ret)
    /\ nodes[Top.node].op = "constant"
    /\ LET nx == IterNext(RunState)
           ret == nx.value
           st == SetCompileRet(nx.st, Top.node, ret, <<>>, <<>>)
       IN /\ nodes' = st.nodes
          /\ last' = Returning([last.run EXCEPT !.it = st.it, !.log = st.log],
                               Compiled(<<constant(nodes[Top.node].value, ret)>>, ret))

\* Add/Sub/Mul/Div::compile on a node whose compile_ret is None: the call on
\* the left operand
CompileLeft ==
    /\ last.run.kind = "compile"
    /\ Top.pc = "enter"
    /\ ~IsSome(nodes[Top.node].compile_ret)
    /\ nodes[Top.node].op # "constant"
    /\ last' = CallOperand(last.run, nodes[Top.node].a, "in_a")
    /\ UNCHANGED nodes

\* the call on the right operand, after the left one has returned
CompileRight ==
    /\ last.run.kind = "compile"
    /\ Top.pc = "got_a"
    /\ last' = CallOperand(last.run, nodes[Top.node].b, "in_b")
    /\ UNCHANGED nodes

\* CompileFinish that pushes its own instruction before its operands'
CompileFinish_OwnFirst ==
    /\ last.run.kind = "compile"
    /\ Top.pc = "got_b"
    /\ LET nx == IterNext(RunState)
           ret == nx.value
           st == SetCompileRet(nx.st, Top.node, ret, Top.a.instructions,
                               Top.b.instructions)
           own == BinaryInstruction(nodes[Top.node].op, get_ret(Top.a),
                                    get_ret(Top.b), ret)
           instructions == Extend(Extend(<<own>>, get_instructions(Top.a)),
                                  get_instructions(Top.b))
       IN /\ nodes' = st.nodes
          /\ last' = Returning([last.run EXCEPT !.it = st.it, !.log = st.log],
                               Compiled(instructions, ret))

\* the rest of Add/Sub/Mul/Div::compile, after both operands have returned
CompileFinish ==
    /\ last.run.kind = "compile"
    /\ Top.pc = "got_b"
    /\ LET instructions == Extend(Extend(<<>>, get_instructions(Top.a)),
                                  get_instructions(Top.b))
           nx == IterNext(RunState)
           ret == nx.value
           st == SetCompileRet(nx.st, Top.node, ret, Top.a.instructions,
                               Top.b.instructions)
           own == BinaryInstruction(nodes[Top.node].op, get_ret(Top.a),
                                    get_ret(Top.b), ret)
       IN /\ nodes' = st.nodes
          /\ last' = Returning([last.run EXCEPT !.it = st.it, !.log = st.log],
                               Compiled(Append(instructions, own), ret))

\* self.execute(): borrow of the root
ExecuteCall ==
    /\ Running /\ Quiet
    /\ \E self \in Handles :
         last' = [NoCall EXCEPT !.op = "executing", !.handle = self,
                     !.run = [Idle EXCEPT !.kind = "execute",
                                          !.frames = <<Frame(self)>>,
                                          !.shared = <<self>>]]
    /\ UNCHANGED nodes

\* Constant::execute
ExecuteConstant ==
    /\ last.run.kind = "execute"
    /\ Top.pc = "enter"
    /\ nodes[Top.node].op = "constant"
    /\ last' = ReturningValue(last.run, nodes[Top.node].value, 0)
    /\ UNCHANGED nodes

\* Add/Sub/Mul/Div::execute: the call on the left operand
ExecuteLeft ==
    /\ last.run.kind = "execute"
    /\ Top.pc = "enter"
    /\ nodes[Top.node].op # "constant"
    /\ last' = CallOperandExecute(last.run, nodes[Top.node].a, "in_a")
    /\ UNCHANGED nodes

\* the call on the right operand
ExecuteRight ==
    /\ last.run.kind = "execute"
    /\ Top.pc = "got_a"
    /\ last' = CallOperandExecute(last.run, nodes[Top.node].b, "in_b")
    /\ UNCHANGED nodes

\* the operator applied to the two values
ExecuteFinish ==
    /\ last.run.kind = "execute"
    /\ Top.pc = "got_b"
    /\ last' = ReturningValue(last.run,
                              BinaryValue(nodes[Top.node].op, Top.va, Top.vb), 2)
    /\ UNCHANGED nodes

\* the steps of a call in progress
Step ==
    \/ CompileAlready \/ CompileConstant \/ CompileLeft \/ CompileRight
    \/ CompileFinish
    \/ ExecuteConstant \/ ExecuteLeft \/ ExecuteRight \/ ExecuteFinish

NextSteps ==
    \/ Quiet /\ New
    \/ Quiet /\ Add
    \/ Quiet /\ Sub
    \/ Quiet /\ Mul
    \/ Quiet /\ Div
    \/ CompileCall
    \/ ExecuteCall
    \/ Step

\* a call that has started goes on until it returns or panics
SpecSteps == Init /\ [][NextSteps]_vars /\ WF_vars(Step)

\* the nodes as they were when the compile call that made this log started
StartOf(ns, log) ==
    [n \in 1 .. Len(ns) |->
        IF \E i \in 1 .. Len(log) : log[i].node = n
        THEN [ns[n] EXCEPT !.compile_ret = None]
        ELSE ns[n]]

\* a call run step by step ends as the call run at once
StepsAgreeStep ==
    (Busy /\ Quiet') =>
        IF last.run.kind = "compile"
        THEN LET r == ScalarCompile(StartOf(nodes', last'.log), last'.handle)
             IN /\ \A n \in 1 .. Len(nodes') : nodes'[n] = r.nodes[n]
                /\ last'.op = "compile"
                /\ last'.panicked = r.panicked
                /\ last'.instructions = r.instructions
                /\ last'.log = r.log
                /\ last'.run.kind = "idle"
        ELSE /\ last'.op = "execute"
             /\ last'.value = ScalarExecute(nodes, last'.handle)
             /\ last'.run = Idle

StepsAgree == [][StepsAgreeStep]_vars

(***************************************************************************)
(* The caller constructs the same expression twice: the same constructor   *)
(* calls, in the same order, on the corresponding handles, so that the     *)
(* second copy shares no node with the first.  SpecCopies starts after     *)
(* these constructions and goes on with execute and compile calls.         *)
(***************************************************************************)
\* the nodes a constructor call can add to len existing ones
NodeChoices(len) ==
    {Constant(F32(v)) : v \in Values}
    \cup {AddNew(x, y) : x \in 1 .. len, y \in 1 .. len}
    \cup {SubNew(x, y) : x \in 1 .. len, y \in 1 .. len}
    \cup {MulNew(x, y) : x \in 1 .. len, y \in 1 .. len}
    \cup {DivNew(x, y) : x \in 1 .. len, y \in 1 .. len}

\* the cells after k constructor calls
RECURSIVE Built(_)
Built(k) ==
    IF k = 0 THEN {<<>>}
    ELSE {Append(g, nd) : <<g, nd>> \in
             UNION {{<<g, nd>> : nd \in NodeChoices(k - 1)} : g \in Built(k - 1)}}

\* the cells after the constructor calls of g are made a second time
Twice(g) ==
    g \o [i \in 1 .. Len(g) |->
            IF g[i].op = "constant" THEN g[i]
            ELSE [g[i] EXCEPT !.a = g[i].a + Len(g), !.b = g[i].b + Len(g)]]

InitCopies ==
    /\ nodes \in {Twice(g) : g \in Built(MaxCopy)}
    /\ last = NoCall

NextCopies == Execute \/ Compile

SpecCopies == InitCopies /\ [][NextCopies]_vars

(***************************************************************************)
(* Vocabulary of the properties.                                           *)
(***************************************************************************)
\* the nodes reachable from n along operand handles, n included
RECURSIVE Reach(_, _)
Reach(ns, n) ==
    IF ns[n].op = "constant" THEN {n}
    ELSE {n} \cup Reach(ns, ns[n].a) \cup Reach(ns, ns[n].b)

\* the last operation was a top-level compile that returned its list
Returned == last.op = "compile" /\ ~last.panicked

\* the slot a lowered node holds
SlotOf(n) == Unwrap(nodes[n].compile_ret)

\* the nodes whose compile_ret the last compile call assigned
Lowered == {last.log[i].node : i \in 1 .. Len(last.log)}

\* a step that is a top-level compile call which returns
CompileReturns == last'.op = "compile" /\ nodes' # nodes

\* a store that no instruction has written is Undef at every slot
Undef == <<>>

ApplyOp(op, x, y) ==
    IF x = Undef \/ y = Undef THEN Undef
    ELSE CASE op = "add" -> FAdd(x, y)
           [] op = "sub" -> FSub(x, y)
           [] op = "mul" -> FMul(x, y)
           [] op = "div" -> FDiv(x, y)

\* the slot-indexed store after the first k instructions, executed in order
RECURSIVE Store(_, _)
Store(instructions, k) ==
    IF k = 0 THEN [s \in {} |-> Undef]
    ELSE LET before == Store(instructions, k - 1)
             i == instructions[k]
             read(s) == IF s \in DOMAIN before THEN before[s] ELSE Undef
             v == IF i.op = "constant" THEN i.value
                  ELSE ApplyOp(i.op, read(i.a), read(i.b))
         IN [s \in DOMAIN before \cup {i.ret} |-> IF s = i.ret THEN v ELSE before[s]]

\* what executing the list leaves at slot s
ValueAt(instructions, s) ==
    LET final == Store(instructions, Len(instructions))
    IN IF s \in DOMAIN final THEN final[s] ELSE Undef

(***************************************************************************)
(* C1.  Whenever a top-level compile returns a list, executing the list in *)
(* order against an empty store leaves at the root's slot the value that   *)
(* execute gives for the same handle.                                      *)
(***************************************************************************)
C1_ListComputesExecute ==
    Returned =>
        ValueAt(last.instructions, SlotOf(last.handle)) = ScalarExecute(nodes, last.handle)

(***************************************************************************)
(* C2.  When a node s is an operand of two parents lowered by one compile  *)
(* call (or both operands of one lowered parent), the returned list has    *)
(* exactly one instruction whose destination is the slot of s and each     *)
(* parent's instruction names that slot for s; for y = add(x, x), x a      *)
(* constant, the list is one constant instruction followed by one add      *)
(* naming its slot twice.                                                  *)
(***************************************************************************)
\* s is an operand of p
OperandOf(s, p) == nodes[p].op # "constant" /\ s \in {nodes[p].a, nodes[p].b}

\* s is shared by parents that the last call lowered
SharedInCall(s, p1, p2) ==
    /\ p1 \in Lowered /\ p2 \in Lowered
    /\ OperandOf(s, p1) /\ OperandOf(s, p2)
    /\ (p1 # p2 \/ nodes[p1].a = nodes[p1].b)

\* the positions of the list whose destination is slot
DefsOf(slot) == {i \in 1 .. Len(last.instructions) : last.instructions[i].ret = slot}

\* the instruction of the list emitted for the lowered node p
InstrOf(p) == last.instructions[CHOOSE i \in DefsOf(SlotOf(p)) : TRUE]

NamesOperands(p) ==
    /\ DefsOf(SlotOf(p)) # {}
    /\ InstrOf(p).op = nodes[p].op
    /\ InstrOf(p).a = SlotOf(nodes[p].a)
    /\ InstrOf(p).b = SlotOf(nodes[p].b)

C2_SharedOperandOnce ==
    Returned =>
        /\ \A s \in Handles, p1 \in Handles, p2 \in Handles :
             SharedInCall(s, p1, p2) =>
                /\ Cardinality(DefsOf(SlotOf(s))) = 1
                /\ NamesOperands(p1) /\ NamesOperands(p2)
        /\ LET y == last.handle
               x == nodes[y].a
           IN (nodes[y].op = "add" /\ nodes[y].b = x /\ nodes[x].op = "constant") =>
                  \E slot \in 0 .. 1 :
                     last.instructions =
                        <<constant(nodes[x].value, slot), add(slot, slot, 1 - slot)>>

(***************************************************************************)
(* C3.  A compile_ret that is Some(slot) keeps that slot in every later    *)
(* state: it changes at most once, from None to Some.                      *)
(***************************************************************************)
C3_Step ==
    \A n \in Handles :
        IsSome(nodes[n].compile_ret) => nodes'[n].compile_ret = nodes[n].compile_ret

C3_CompileRetSetOnce == [][C3_Step]_vars

\* a later call reached a node lowered by an earlier call, and a node lowered
\* at another slot than the one the later call would give it kept its slot
C3_Witness ==
    /\ Returned
    /\ \E n \in Reach(nodes, last.handle) \ Lowered : SlotOf(n) >= Len(last.instructions)

(***************************************************************************)
(* C4.  No top-level compile finds its root already lowered: the           *)
(* unreachable!() arm of Scalar::compile is never executed.                *)
(***************************************************************************)
C4_RootNeverAlreadyCompiled == ~last.panicked

(***************************************************************************)
(* C5.  The destinations of the list a top-level compile returns are       *)
(* exactly 0 .. k-1, k the number of nodes whose compile_ret the call      *)
(* assigned, and no slot is the destination of two instructions.           *)
(***************************************************************************)
\* the nodes whose compile_ret a step assigns
AssignedInStep ==
    {n \in Handles : ~IsSome(nodes[n].compile_ret) /\ IsSome(nodes'[n].compile_ret)}

C5_Step ==
    CompileReturns =>
        LET k == Cardinality(AssignedInStep)
        IN /\ Dests(last'.instructions) = 0 .. (k - 1)
           /\ Len(last'.instructions) = k

C5_DenseSlots == [][C5_Step]_vars

\* a call that lowered several nodes and skipped one lowered by an earlier call
C5_Witness ==
    /\ Returned
    /\ Len(last.instructions) >= 2
    /\ Reach(nodes, last.handle) \ Lowered # {}

(***************************************************************************)
(* C6.  The length of the list a top-level compile returns is the number   *)
(* of distinct nodes reachable from its root.                              *)
(***************************************************************************)
C6_LengthIsReachCount ==
    Returned => Len(last.instructions) = Cardinality(Reach(nodes, last.handle))

(***************************************************************************)
(* C7.  The list of one top-level compile is in left-to-right depth-first  *)
(* post-order: for each binary node lowered in the call, the instructions  *)
(* its left operand handed up precede those its right operand handed up,   *)
(* which precede the node's own; slots increase in the order the nodes     *)
(* were first lowered, and the i-th instruction (from 0) has destination   *)
(* i.  For constant(v) add constant(w) the list is %0: constant v,         *)
(* %1: constant w, %2: add %0 %1.                                          *)
(***************************************************************************)
\* the position in the returned list of the instruction with destination slot
PosOf(slot) == CHOOSE i \in 1 .. Len(last.instructions) : last.instructions[i].ret = slot

\* the destinations of the instructions emitted for the nodes of a set
SlotsOf(S) == {SlotOf(n) : n \in S \cap Lowered}

C7_PostOrder ==
    Returned =>
        /\ \A i \in 1 .. Len(last.instructions) : last.instructions[i].ret = i - 1
        /\ Len(last.log) = Len(last.instructions)
        /\ \A i \in 1 .. Len(last.log) :
              /\ SlotOf(last.log[i].node) = last.instructions[i].ret
              /\ last.instructions[i].op = nodes[last.log[i].node].op
              /\ \A j \in 1 .. Len(last.log) :
                    i < j => SlotOf(last.log[i].node) < SlotOf(last.log[j].node)
        /\ \A i \in 1 .. Len(last.log) :
              LET e == last.log[i]
                  own == PosOf(SlotOf(e.node))
              IN nodes[e.node].op # "constant" =>
                    /\ e.left \subseteq SlotsOf(Reach(nodes, nodes[e.node].a))
                    /\ e.right \subseteq SlotsOf(Reach(nodes, nodes[e.node].b))
                    /\ \A l \in e.left, r \in e.right : PosOf(l) < PosOf(r)
                    /\ \A x \in e.left \cup e.right : PosOf(x) < own
                    /\ e.left \cup e.right \cup {SlotOf(e.node)} =
                          {last.instructions[p].ret :
                              p \in (own - Cardinality(e.left \cup e.right)) .. own}
        /\ LET r == last.handle
           IN (/\ nodes[r].op = "add"
               /\ nodes[r].a # nodes[r].b
               /\ nodes[nodes[r].a].op = "constant"
               /\ nodes[nodes[r].b].op = "constant"
               /\ Lowered = Reach(nodes, r)) =>
                  last.instructions = <<constant(nodes[nodes[r].a].value, 0),
                                        constant(nodes[nodes[r].b].value, 1),
                                        add(0, 1, 2)>>

\* a binary root whose left operand, itself binary, handed up two instructions
C7_Witness ==
    /\ Returned
    /\ Len(last.log) = 3
    /\ Cardinality(last.log[3].left) = 2

(***************************************************************************)
(* C9.  execute and the binary constructions change no existing node; a    *)
(* construction adds one node whose compile_ret is None and whose operands *)
(* are the two given handles.                                              *)
(***************************************************************************)
BinaryOps == {"add", "sub", "mul", "div"}

C9_Step ==
    /\ last'.op = "execute" => nodes' = nodes
    /\ last'.op \in BinaryOps /\ last' # last =>
          /\ Len(nodes') = Len(nodes) + 1
          /\ \A n \in Handles : nodes'[n] = nodes[n]
          /\ nodes'[Len(nodes')] =
                [op |-> last'.op, value |-> PZero, a |-> last'.args[1],
                 b |-> last'.args[2], compile_ret |-> None]
          /\ last'.handle = Len(nodes')
          /\ last'.args[1] \in Handles /\ last'.args[2] \in Handles

C9_ExecuteAndConstructFrame == [][C9_Step]_vars

\* a construction over two different operands, one of them already lowered,
\* and an execute in a state with lowered nodes
C9_Witness ==
    \/ /\ last.op \in BinaryOps
       /\ last.args[1] # last.args[2]
       /\ IsSome(nodes[last.args[1]].compile_ret)
       /\ ~IsSome(nodes[last.args[2]].compile_ret)
    \/ /\ last.op = "execute"
       /\ nodes[last.handle].op \in BinaryOps
       /\ IsSome(nodes[last.handle].compile_ret)

(***************************************************************************)
(* C10.  A top-level compile changes only compile_ret fields, and only of  *)
(* nodes reachable from its root; execute of every handle returns the same *)
(* value after the call as before it.                                      *)
(***************************************************************************)
C10_Step ==
    last'.op = "compile" =>
        /\ Len(nodes') = Len(nodes)
        /\ \A n \in Handles :
              /\ nodes'[n] = [nodes[n] EXCEPT !.compile_ret = nodes'[n].compile_ret]
              /\ n \notin Reach(nodes, last'.handle) => nodes'[n] = nodes[n]
              /\ ScalarExecute(nodes', n) = ScalarExecute(nodes, n)

C10_CompileFrame == [][C10_Step]_vars

\* a call that assigned several compile_ret fields while a node outside the
\* root's graph exists
C10_Witness ==
    /\ Returned
    /\ Len(last.log) >= 2
    /\ Handles \ Reach(nodes, last.handle) # {}

(***************************************************************************)
(* C8.  Lowering two freshly constructed copies of the same expression     *)
(* that share no node gives two lists that are identical up to a           *)
(* consistent renumbering of slots: same length and, position by position, *)
(* same opcode and same constant value.                                    *)
(***************************************************************************)
\* the node of the other copy that the same constructor call built
CopyOf(n) ==
    LET half == Len(nodes) \div 2
    IN IF n <= half THEN n + half ELSE n - half

\* no node of the graph of n has been lowered
Fresh(ns, n) == \A m \in Reach(ns, n) : ~IsSome(ns[m].compile_ret)

\* the slot of list2 that stands for slot s of list1
Renumbered(list1, list2, s) ==
    list2[CHOOSE i \in 1 .. Len(list1) : list1[i].ret = s].ret

SameUpToRenumbering(list1, list2) ==
    /\ Len(list1) = Len(list2)
    /\ \A i \in 1 .. Len(list1), j \in 1 .. Len(list1) :
          i # j => list1[i].ret # list1[j].ret /\ list2[i].ret # list2[j].ret
    /\ \A i \in 1 .. Len(list1) :
          /\ list1[i].op = list2[i].op
          /\ list1[i].value = list2[i].value
          /\ list1[i].op # "constant" =>
                /\ list1[i].a \in Dests(list1) /\ list1[i].b \in Dests(list1)
                /\ list2[i].a = Renumbered(list1, list2, list1[i].a)
                /\ list2[i].b = Renumbered(list1, list2, list1[i].b)

\* a compile of a fresh root directly followed by the compile of its fresh copy
C8_Step ==
    (/\ Returned
     /\ Lowered = Reach(nodes, last.handle)
     /\ last'.op = "compile"
     /\ last'.handle = CopyOf(last.handle)
     /\ Fresh(nodes, last'.handle)) =>
        /\ ~last'.panicked
        /\ SameUpToRenumbering(last.instructions, last'.instructions)

C8_CopiesLowerAlike == [][C8_Step]_vars

\* both copies of an expression with a shared operand lowered one after the
\* other, each fresh, while the rest of the graph is untouched
C8_Witness ==
    /\ Returned
    /\ Lowered = Reach(nodes, last.handle)
    /\ nodes[last.handle].op \in BinaryOps
    /\ nodes[last.handle].a = nodes[last.handle].b
    /\ \A m \in Reach(nodes, CopyOf(last.handle)) :
          IsSome(nodes[m].compile_ret) /\ SlotOf(m) = SlotOf(CopyOf(m))

(***************************************************************************)
(* C11.  execute of a constant returns its value; execute of an Add, Sub,  *)
(* Mul or Div node returns lhs + rhs, lhs - rhs, lhs * rhs, lhs / rhs of   *)
(* the values execute gives for its operands, in that order, also when     *)
(* sub-expressions are shared.                                             *)
(***************************************************************************)
\* the values of the first k nodes, computed once per node in construction
\* order (every operand is constructed before the node that uses it)
RECURSIVE ValueTable(_, _)
ValueTable(ns, k) ==
    IF k = 0 THEN <<>>
    ELSE LET t == ValueTable(ns, k - 1)
             nd == ns[k]
         IN Append(t, CASE nd.op = "constant" -> nd.value
                        [] nd.op = "add" -> FAdd(t[nd.a], t[nd.b])
                        [] nd.op = "sub" -> FSub(t[nd.a], t[nd.b])
                        [] nd.op = "mul" -> FMul(t[nd.a], t[nd.b])
                        [] nd.op = "div" -> FDiv(t[nd.a], t[nd.b]))

\* both operands of h are constants with the values x and y
ConstantOperands(h, x, y) ==
    /\ nodes[h].op \in {"add", "sub", "mul", "div"}
    /\ nodes[nodes[h].a] = Constant(F32(x))
    /\ nodes[nodes[h].b] = Constant(F32(y))

C11_ExecuteValue ==
    last.op = "execute" =>
        LET h == last.handle
        IN /\ last.value = ValueTable(nodes, Len(nodes))[h]
           /\ nodes[h].op = "constant" => last.value = nodes[h].value
           /\ nodes[h].op = "add" /\ ConstantOperands(h, 1, 1) => last.value = <<2, 1>>
           /\ nodes[h].op = "sub" /\ ConstantOperands(h, 1, 0) => last.value = <<1, 1>>
           /\ nodes[h].op = "sub" /\ ConstantOperands(h, 0, 1) => last.value = <<-1, 1>>
           /\ nodes[h].op = "div" /\ ConstantOperands(h, 1, 0) => last.value = PInf
           /\ nodes[h].op = "div" /\ ConstantOperands(h, 0, 1) => last.value = PZero
           /\ nodes[h].op = "div" /\ ConstantOperands(h, 0, 0) => last.value = NaN

\* execute of x - (x + x) with x = 1: a shared operand, and an operator whose
\* operand order shows in the result
C11_Witness ==
    /\ last.op = "execute"
    /\ nodes[last.handle].op = "sub"
    /\ nodes[nodes[last.handle].b].op = "add"
    /\ nodes[nodes[last.handle].a].op = "constant"
    /\ last.value = <<-1, 1>>

(***************************************************************************)
(* C12.  The operand graph is acyclic in every reachable state: the        *)
(* operands of a node were created before it.  Every execute call and      *)
(* every top-level compile call terminates: execute returns, compile       *)
(* returns or aborts on a root that is already compiled.                   *)
(***************************************************************************)
Acyclic ==
    \A n \in Handles :
        nodes[n].op # "constant" =>
            /\ nodes[n].a \in 1 .. (n - 1)
            /\ nodes[n].b \in 1 .. (n - 1)

\* the call on handle h has ended: it returned, or it is a compile that
\* aborted on the unreachable!() of an already compiled root
Ended(h) ==
    /\ Quiet
    /\ last.run.kind = "idle"
    /\ last.handle = h
    /\ last.op \in {"execute", "compile"}
    /\ last.panicked =>
          /\ last.op = "compile"
          /\ last.run.ret = [node |-> h,
                             res |-> AlreadyCompiled(SlotOf(h))]

C12_AcyclicAndTerminates ==
    /\ []Acyclic
    /\ \A h \in 1 .. MaxNodes : (Busy /\ last.handle = h) ~> Ended(h)

\* a compile call that went three frames deep has returned
C12_Witness ==
    /\ Ended(3)
    /\ last.op = "compile"
    /\ ~last.panicked
    /\ nodes[3].op # "constant"
    /\ nodes[nodes[3].a].op # "constant"
    /\ Len(last.log) = 3

(***************************************************************************)
(* C13.  compile on a node whose compile_ret is Some(slot) returns         *)
(* AlreadyCompiled(slot) at once: no compile call on an operand, no value  *)
(* taken from the iterator, no compile_ret changed, and its parent adds    *)
(* no instruction for it to the list it assembles.                         *)
(***************************************************************************)
\* the instructions the result of an operand adds to its parent's list
Contribution(res) == IF res.tag = "Compiled" THEN res.instructions ELSE <<>>

\* the step of a nested compile call that finds compile_ret Some
C13_AnswerStep ==
    (/\ last.run.kind = "compile"
     /\ Top.pc = "enter"
     /\ IsSome(nodes[Top.node].compile_ret)
     /\ Len(last.run.frames) > 1) =>
        LET k == Len(last.run.frames)
            slot == Unwrap(nodes[Top.node].compile_ret)
        IN /\ last'.run.kind = "compile"
           /\ last'.run.ret = [node |-> Top.node, res |-> AlreadyCompiled(slot)]
           /\ Len(last'.run.frames) = k - 1
           /\ last'.run.frames[k - 1] \in
                 {[last.run.frames[k - 1] EXCEPT !.pc = "got_a",
                                                 !.a = AlreadyCompiled(slot)],
                  [last.run.frames[k - 1] EXCEPT !.pc = "got_b",
                                                 !.b = AlreadyCompiled(slot)]}
           /\ last'.run.it = last.run.it
           /\ last'.run.log = last.run.log
           /\ nodes' = nodes

\* the step in which a parent assembles its list
C13_AssembleStep ==
    (/\ last.run.kind = "compile"
     /\ Top.pc = "got_b") =>
        /\ last'.run.ret.node = Top.node
        /\ last'.run.ret.res.tag = "Compiled"
        /\ SubSeq(last'.run.ret.res.instructions, 1,
                  Len(last'.run.ret.res.instructions) - 1)
              = Contribution(Top.a) \o Contribution(Top.b)
        /\ Top.a.tag = "AlreadyCompiled" => Contribution(Top.a) = <<>>
        /\ Top.b.tag = "AlreadyCompiled" => Contribution(Top.b) = <<>>

C13_AlreadyCompiledAtOnce == [][C13_AnswerStep /\ C13_AssembleStep]_vars

\* a parent about to assemble its list from a left operand that answered
\* AlreadyCompiled and a right operand that was lowered, after slots were
\* taken
C13_Witness ==
    /\ last.run.kind = "compile"
    /\ Top.pc = "got_b"
    /\ Top.a.tag = "AlreadyCompiled"
    /\ Top.b.tag = "Compiled"
    /\ last.run.it > 0

(***************************************************************************)
(* C14.  A top-level compile of a not-yet-lowered root that reaches a node *)
(* lowered by an earlier top-level call returns normally and emits no      *)
(* instruction for that node.  As stated: every slot it uses as the        *)
(* operand for such a memoized node is not the destination of any          *)
(* instruction of the returned list.  As the code behaves: the operand is  *)
(* the slot memoized by the earlier call, and since the slots of the call  *)
(* restart at 0 that slot is the destination of an instruction of the      *)
(* returned list, emitted for another node, exactly when it is smaller     *)
(* than the length of the list.                                            *)
(***************************************************************************)
\* the nodes reachable from h that an earlier call lowered
Memoized(h) == {n \in Reach(nodes, h) : IsSome(nodes[n].compile_ret)}

\* the call that returns in this step lowers h, a root not lowered before,
\* which reaches a node lowered before
LowersOverMemo(h) ==
    /\ last'.op = "compile"
    /\ last'.handle = h
    /\ ~IsSome(nodes[h].compile_ret)
    /\ Memoized(h) # {}

\* the call returns, and its list holds one instruction per node it lowered
\* and none for a memoized node
NoInstructionForMemoized(h) ==
    /\ ~last'.panicked
    /\ Len(last'.instructions) = Len(last'.log)
    /\ \A i \in 1 .. Len(last'.log) : last'.log[i].node \notin Memoized(h)

\* the operand slots the returned list uses for memoized operands, each with
\* the node it stands for
MemoizedOperandUses(h) ==
    UNION {LET p == last'.log[i].node
               ins == last'.instructions[i]
           IN IF nodes[p].op = "constant" THEN {}
              ELSE {u \in {[node |-> nodes[p].a, slot |-> ins.a],
                           [node |-> nodes[p].b, slot |-> ins.b]} :
                       u.node \in Memoized(h)}
           : i \in 1 .. Len(last'.log)}

C14_StepAsStated ==
    \A h \in Handles :
        LowersOverMemo(h) =>
            /\ NoInstructionForMemoized(h)
            /\ \A u \in MemoizedOperandUses(h) :
                  u.slot \notin Dests(last'.instructions)

C14_Step ==
    \A h \in Handles :
        LowersOverMemo(h) =>
            /\ NoInstructionForMemoized(h)
            /\ \A u \in MemoizedOperandUses(h) :
                  /\ u.slot = Unwrap(nodes[u.node].compile_ret)
                  /\ u.slot \in Dests(last'.instructions)
                        <=> u.slot < Len(last'.instructions)
                  /\ \A i \in 1 .. Len(last'.instructions) :
                        last'.instructions[i].ret = u.slot
                            => last'.log[i].node # u.node

C15_Step ==
    (/\ last.run.kind = "compile"
     /\ Len(last.run.frames) = 1
     /\ Top.pc = "enter"
     /\ IsSome(nodes[Top.node].compile_ret)) =>
        /\ last'.op = "compile"
        /\ last'.handle = Top.node
        /\ last'.panicked
        /\ last'.instructions = <<>>
        /\ last.run.it = 0
        /\ last.run.log = <<>>
        /\ last'.log = <<>>
        /\ nodes' = nodes

C15_LoweredRootAborts == [][C15_Step]_vars

\* the abort, on a graph that holds a lowered and a not lowered node
C15_Witness ==
    /\ last.op = "compile"
    /\ last.panicked
    /\ last.run.kind = "idle"
    /\ IsSome(nodes[last.handle].compile_ret)
    /\ \E n \in Handles : ~IsSome(nodes[n].compile_ret)

(***************************************************************************)
(* C16.  The instruction emitted when a binary node is first lowered has   *)
(* the opcode of the node's variant, the slot of its lhs as first operand  *)
(* and the slot of its rhs as second operand (also when an operand was     *)
(* already compiled), and the slot stored in the node's compile_ret as     *)
(* destination.                                                            *)
(***************************************************************************)
C16_BinaryInstruction ==
    Returned =>
        \A i \in 1 .. Len(last.log) :
            LET p == last.log[i].node
            IN nodes[p].op # "constant" =>
                  /\ i <= Len(last.instructions)
                  /\ last.instructions[i] =
                        [op |-> nodes[p].op, value |-> PZero,
                         a |-> SlotOf(nodes[p].a), b |-> SlotOf(nodes[p].b),
                         ret |-> SlotOf(p)]
                  /\ Cardinality({j \in 1 .. Len(last.instructions) :
                                     last.instructions[j].ret = SlotOf(p)}) = 1

\* a sub or div node lowered with both operands already compiled by an
\* earlier call, at different slots
C16_Witness ==
    /\ Returned
    /\ nodes[last.handle].op \in {"sub", "div"}
    /\ nodes[last.handle].a \notin Lowered
    /\ nodes[last.handle].b \notin Lowered
    /\ SlotOf(nodes[last.handle].a) # SlotOf(nodes[last.handle].b)

(***************************************************************************)
(* C17.  Whenever compile returns Compiled(instructions, slot) for a node, *)
(* the list is not empty, its last instruction is the node's own, with     *)
(* destination slot, and slot is the largest destination of the list; the  *)
(* list a top-level compile returns is its root's, so the final result     *)
(* slot is the destination of its last instruction.                        *)
(***************************************************************************)
C17_Step ==
    (/\ last.run.kind = "compile"
     /\ Len(last'.run.frames) < Len(last.run.frames)
     /\ last'.run.ret.res.tag = "Compiled") =>
        LET n == last'.run.ret.node
            instructions == last'.run.ret.res.instructions
            slot == last'.run.ret.res.ret
            own == instructions[Len(instructions)]
        IN /\ n = Top.node
           /\ Len(instructions) > 0
           /\ own.op = nodes[n].op
           /\ own.ret = slot
           /\ nodes'[n].compile_ret = Some(slot)
           /\ \A i \in 1 .. Len(instructions) : instructions[i].ret <= slot
           /\ Len(last.run.frames) = 1 =>
                 /\ ~last'.panicked
                 /\ last'.instructions = instructions
                 /\ last'.instructions[Len(last'.instructions)].ret
                       = Unwrap(nodes'[last'.handle].compile_ret)

C17_OwnInstructionLast == [][C17_Step]_vars

\* a nested compile has handed back a list of two instructions
C17_Witness ==
    /\ last.run.kind = "compile"
    /\ last.run.ret.res.tag = "Compiled"
    /\ Len(last.run.ret.res.instructions) = 2

(***************************************************************************)
(* C18.  In a top-level compile of a root none of whose reachable nodes    *)
(* was lowered before, every operand slot of a binary instruction of the   *)
(* returned list is the destination of an instruction strictly earlier in  *)
(* the list.                                                               *)
(***************************************************************************)
DefinedBefore(slot, i) == \E j \in 1 .. (i - 1) : last.instructions[j].ret = slot

C18_DefinitionBeforeUse ==
    (Returned /\ Lowered = Reach(nodes, last.handle)) =>
        \A i \in 1 .. Len(last.instructions) :
            last.instructions[i].op # "constant" =>
                /\ DefinedBefore(last.instructions[i].a, i)
                /\ DefinedBefore(last.instructions[i].b, i)

\* a fresh root with a binary operand that shares a node with it
C18_Witness ==
    /\ Returned
    /\ Lowered = Reach(nodes, last.handle)
    /\ Len(last.instructions) = 3
    /\ last.instructions[2].op # "constant"
    /\ last.instructions[3].op # "constant"

(***************************************************************************)
(* C19.  Between top-level calls the set of lowered nodes is closed under  *)
(* operands: when the compile_ret of a binary node is Some, so are those   *)
(* of both its operands.                                                   *)
(***************************************************************************)
C19_LoweredClosed ==
    \A n \in Handles :
        (nodes[n].op # "constant" /\ IsSome(nodes[n].compile_ret)) =>
            /\ IsSome(nodes[nodes[n].a].compile_ret)
            /\ IsSome(nodes[nodes[n].b].compile_ret)

\* a lowered div node with two different operands
C19_Witness ==
    \E n \in Handles :
        /\ nodes[n].op = "div"
        /\ nodes[n].a # nodes[n].b
        /\ IsSome(nodes[n].compile_ret)

(***************************************************************************)
(* C20.  During a top-level compile call no borrow_mut is requested on a   *)
(* node that is borrowed: the nodes borrowed mutably are the nodes of the  *)
(* frames, which are distinct and form a path of operand edges from the    *)
(* root to the node being lowered, so no borrow panics.  This holds also   *)
(* for a node whose two operands are the same node and for nodes shared at *)
(* different depths.                                                       *)
(***************************************************************************)
\* the operand the top frame is about to call compile on, if any
NextOperand ==
    IF Top.pc = "enter" /\ nodes[Top.node].op # "constant"
                        /\ ~IsSome(nodes[Top.node].compile_ret)
    THEN {nodes[Top.node].a}
    ELSE IF Top.pc = "got_a" THEN {nodes[Top.node].b} ELSE {}

C20_NoBorrowConflict ==
    /\ last.run.kind \notin {"BorrowMutError", "BorrowError"}
    /\ last.run.kind = "compile" =>
          LET frames == last.run.frames
          IN /\ frames[1].node = last.handle
             /\ last.run.borrowed = {frames[i].node : i \in 1 .. Len(frames)}
             /\ Cardinality(last.run.borrowed) = Len(frames)
             /\ last.run.shared = <<>>
             /\ \A i \in 1 .. (Len(frames) - 1) :
                   frames[i + 1].node \in {nodes[frames[i].node].a,
                                           nodes[frames[i].node].b}
             /\ \A n \in NextOperand : ~BorrowMutFails(last.run, n)

\* a nested node about to borrow its right operand, which is also its left
\* operand
C20_Witness ==
    /\ last.run.kind = "compile"
    /\ Len(last.run.frames) = 2
    /\ Top.pc = "got_a"
    /\ nodes[Top.node].a = nodes[Top.node].b

====
